---- MODULE Spec2Model ----
(***************************************************************************)
(* Model of the Pratt parser of src/src/parser.rs: the two-token lookahead *)
(* window over a token source, the prefix/infix rules attached to tokens,  *)
(* the precedence-climbing loop, the statement rules and the top-level     *)
(* loop of parse_program that collects statements and errors.              *)
(***************************************************************************)
EXTENDS Integers, Sequences, FiniteSets, TLC

VARIABLES
    self,        \* the Parser: [lexer, current_token, peek_token]
    p,           \* the Program under construction: [statments, errors]
    pc,          \* position of parse_program: "loop", "let_loop", "return_loop", "done"
    name,        \* parse_let_statement's local `name` while its skip loop runs
    iterations   \* number of completed iterations of parse_program's while loop

vars == <<self, p, pc, name, iterations>>

-----------------------------------------------------------------------------
(* Tokens.  Option<Token> is a token or None.                              *)

None == [kind |-> "None"]
Tok(k) == [kind |-> k]
Token_Ident(v) == [kind |-> "Ident", value |-> v]
Token_Int(v) == [kind |-> "Int", value |-> v]

-----------------------------------------------------------------------------
(* AST nodes (src/src/ast.rs, as constructed by the parser).               *)

Identifier(v) == [kind |-> "Identifier", value |-> v]
IntegerLiteral(v) == [kind |-> "IntegerLiteral", value |-> v]
BooleanLiteral(v) == [kind |-> "BooleanLiteral", value |-> v]
PrefixExpression(op, right) ==
    [kind |-> "PrefixExpression", operator |-> op, right |-> right]
InfixExpression(op, left, right) ==
    [kind |-> "InfixExpression", operator |-> op, left |-> left, right |-> right]

LetStatement(n, v) == [kind |-> "Let", name |-> n, value |-> v]
ReturnStatement(v) == [kind |-> "Return", value |-> v]
ExpressionStatement(e) == [kind |-> "Expression", expression |-> e]

Program_new == [statments |-> <<>>, errors |-> <<>>]

-----------------------------------------------------------------------------
(* Result<T>: Ok(value) or Err(message).  A message is the format string   *)
(* of the bail! and, when the format has a {:?} hole, the token put there. *)

Ok(v) == [ok |-> TRUE, value |-> v]
Err(m) == [ok |-> FALSE, err |-> m]
Msg(fmt) == [fmt |-> fmt]
MsgTok(fmt, tok) == [fmt |-> fmt, arg |-> tok]

\* What a rule hands back: the parser as the rule left it, and its result.
Ret(parser, result) == [parser |-> parser, result |-> result]

-----------------------------------------------------------------------------
(* Operator table (src/src/ast.rs) and precedences (src/src/parser.rs).    *)

OperatorTokens ==
    {"Plus", "Minus", "Bang", "Asterisk", "Slash", "Lt", "Gt", "Eq", "NotEq", "Lparen"}

Operator_try_from(token) ==
    IF token.kind \in OperatorTokens
    THEN Ok(token.kind)
    ELSE Err(Msg("Token cannot be converted into operator"))

Lowest == 0
Equals == 1
LessGreater == 2
Sum == 3
Product == 4
Prefix == 5
Call == 6

\* A table that gives every binary operator the precedence of a sum.
OperatorPrecedence_from_flat(op) ==
    IF op \in {"Minus", "Plus", "Asterisk", "Slash", "Eq", "NotEq", "Lt", "Gt"}
    THEN Sum
    ELSE Lowest

OperatorPrecedence_from(op) ==
    CASE op = "Minus" -> Sum
      [] op = "Plus" -> Sum
      [] op = "Asterisk" -> Product
      [] op = "Slash" -> Product
      [] op = "Eq" -> Equals
      [] op = "NotEq" -> Equals
      [] op = "Lt" -> LessGreater
      [] op = "Gt" -> LessGreater
      [] OTHER -> Lowest

-----------------------------------------------------------------------------
(* The token source: a finite sequence of tokens read left to right; once  *)
(* it is exhausted every further request yields None.                      *)

Lexer_new(input) == [input |-> input, position |-> 0]

Lexer_next_token(lexer) ==
    IF lexer.position < Len(lexer.input)
    THEN [lexer |-> [lexer EXCEPT !.position = @ + 1],
          token |-> lexer.input[lexer.position + 1]]
    ELSE [lexer |-> lexer, token |-> None]

-----------------------------------------------------------------------------
(* Parser                                                                  *)

next_token(parser) ==
    LET n == Lexer_next_token(parser.lexer)
    IN  [lexer |-> n.lexer,
         current_token |-> parser.peek_token,
         peek_token |-> n.token]

Parser_new(lexer) ==
    next_token(next_token(
        [lexer |-> lexer, current_token |-> None, peek_token |-> None]))

RECURSIVE parse_expression(_, _)
RECURSIVE parse_expression_loop(_, _, _)
RECURSIVE prefix_parse(_, _)
RECURSIVE infix_parse(_, _, _)

\* prefix_parse with a grouping rule that leaves the `)` unconsumed.
prefix_parse_rparen_left(token, parser) ==
    CASE token.kind = "Ident" -> Ret(parser, Ok(Identifier(token.value)))
      [] token.kind \in {"Bang", "Minus"} ->
            LET r == parse_expression(next_token(parser), Prefix)
            IN  IF ~r.result.ok THEN r
                ELSE LET op == Operator_try_from(token)
                     IN  IF ~op.ok THEN Ret(r.parser, op)
                         ELSE Ret(r.parser,
                                  Ok(PrefixExpression(op.value, r.result.value)))
      [] token.kind = "Int" -> Ret(parser, Ok(IntegerLiteral(token.value)))
      [] token.kind = "True" -> Ret(parser, Ok(BooleanLiteral(TRUE)))
      [] token.kind = "False" -> Ret(parser, Ok(BooleanLiteral(FALSE)))
      [] token.kind = "Lparen" ->
            LET exp == parse_expression(next_token(parser), Lowest)
            IN  IF exp.parser.peek_token.kind = "Rparen"
                THEN Ret(exp.parser, exp.result)
                ELSE Ret(exp.parser,
                         Err(Msg("right parentesis not found after left")))
      [] OTHER -> Ret(parser, Err(MsgTok("test broken exp ", token)))

\* prefix_parse with a unary rule that parses its operand at Lowest.
prefix_parse_operand_lowest(token, parser) ==
    CASE token.kind = "Ident" -> Ret(parser, Ok(Identifier(token.value)))
      [] token.kind \in {"Bang", "Minus"} ->
            LET r == parse_expression(next_token(parser), Lowest)
            IN  IF ~r.result.ok THEN r
                ELSE LET op == Operator_try_from(token)
                     IN  IF ~op.ok THEN Ret(r.parser, op)
                         ELSE Ret(r.parser,
                                  Ok(PrefixExpression(op.value, r.result.value)))
      [] token.kind = "Int" -> Ret(parser, Ok(IntegerLiteral(token.value)))
      [] token.kind = "True" -> Ret(parser, Ok(BooleanLiteral(TRUE)))
      [] token.kind = "False" -> Ret(parser, Ok(BooleanLiteral(FALSE)))
      [] token.kind = "Lparen" ->
            LET exp == parse_expression(next_token(parser), Lowest)
            IN  IF exp.parser.peek_token.kind = "Rparen"
                THEN Ret(next_token(exp.parser), exp.result)
                ELSE Ret(exp.parser,
                         Err(Msg("right parentesis not found after left")))
      [] OTHER -> Ret(parser, Err(MsgTok("test broken exp ", token)))

prefix_parse(token, parser) ==
    CASE token.kind = "Ident" -> Ret(parser, Ok(Identifier(token.value)))
      [] token.kind \in {"Bang", "Minus"} ->
            LET r == parse_expression(next_token(parser), Prefix)
            IN  IF ~r.result.ok THEN r
                ELSE LET op == Operator_try_from(token)
                     IN  IF ~op.ok THEN Ret(r.parser, op)
                         ELSE Ret(r.parser,
                                  Ok(PrefixExpression(op.value, r.result.value)))
      [] token.kind = "Int" -> Ret(parser, Ok(IntegerLiteral(token.value)))
      [] token.kind = "True" -> Ret(parser, Ok(BooleanLiteral(TRUE)))
      [] token.kind = "False" -> Ret(parser, Ok(BooleanLiteral(FALSE)))
      [] token.kind = "Lparen" ->
            LET exp == parse_expression(next_token(parser), Lowest)
            IN  IF exp.parser.peek_token.kind = "Rparen"
                THEN Ret(next_token(exp.parser), exp.result)
                ELSE Ret(exp.parser,
                         Err(Msg("right parentesis not found after left")))
      [] OTHER -> Ret(parser, Err(MsgTok("test broken exp ", token)))

infix_parse(token, left, parser) ==
    IF token.kind \in {"Plus", "Minus", "Asterisk", "Slash", "Lt", "Gt", "Eq", "NotEq"}
    THEN LET op == Operator_try_from(token)
         IN  IF ~op.ok THEN Ret(parser, op)
             ELSE LET precedence == OperatorPrecedence_from(op.value)
                      r == parse_expression(next_token(next_token(parser)), precedence)
                  IN  IF ~r.result.ok THEN r
                      ELSE Ret(r.parser,
                               Ok(InfixExpression(op.value, left, r.result.value)))
    ELSE Ret(parser, Ok(left))

parse_expression_loop(parser, left, precedence) ==
    IF parser.current_token.kind = "Semicolon"
    THEN Ret(parser, Ok(left))
    ELSE IF parser.peek_token # None
    THEN LET op == Operator_try_from(parser.peek_token)
         IN  IF ~op.ok THEN Ret(parser, Ok(left))
             ELSE IF precedence >= OperatorPrecedence_from(op.value)
             THEN Ret(parser, Ok(left))
             ELSE LET r == infix_parse(parser.peek_token, left, parser)
                  IN  IF ~r.result.ok THEN r
                      ELSE parse_expression_loop(r.parser, r.result.value, precedence)
    ELSE Ret(parser, Ok(left))

parse_expression(parser, precedence) ==
    IF parser.current_token # None
    THEN LET r == prefix_parse(parser.current_token, parser)
         IN  IF ~r.result.ok THEN r
             ELSE parse_expression_loop(r.parser, r.result.value, precedence)
    ELSE Ret(parser, Err(Msg("cannot parse expression")))

\* parse_expression_statement that never consumes the separator.
parse_expression_statement_keeps_separator(parser) ==
    LET r == parse_expression(parser, Lowest)
    IN  IF ~r.result.ok THEN r
        ELSE Ret(r.parser, Ok(ExpressionStatement(r.result.value)))

parse_expression_statement(parser) ==
    LET r == parse_expression(parser, Lowest)
    IN  IF ~r.result.ok THEN r
        ELSE Ret(IF r.parser.peek_token.kind = "Semicolon"
                 THEN next_token(r.parser) ELSE r.parser,
                 Ok(ExpressionStatement(r.result.value)))

\* The head of parse_let_statement without the test for `=`.
parse_let_statement_head_any(parser) ==
    IF parser.peek_token.kind = "Ident"
    THEN LET s1 == next_token(parser)
             ident == Identifier(s1.current_token.value)
             s2 == [s1 EXCEPT !.current_token = Token_Ident("")]
         IN  Ret(next_token(s2), Ok(ident))
    ELSE Ret(parser, Err(MsgTok("expected token to be ident got: ", parser.peek_token)))

(* parse_let_statement up to its skip loop: Err when the `let` is not      *)
(* followed by an identifier and `=`, else Ok(name) with the window on `=`.*)
parse_let_statement_head(parser) ==
    IF parser.peek_token.kind = "Ident"
    THEN LET s1 == next_token(parser)
             ident == Identifier(s1.current_token.value)
             \* mem::take leaves an empty string in the current token
             s2 == [s1 EXCEPT !.current_token = Token_Ident("")]
         IN  IF s2.peek_token.kind = "Assign"
             THEN Ret(next_token(s2), Ok(ident))
             ELSE Ret(s2, Err(MsgTok("expected token to be ident got: ", s2.peek_token)))
    ELSE Ret(parser, Err(MsgTok("expected token to be ident got: ", parser.peek_token)))

\* A Let statement that loses the name it binds.
parse_let_statement_tail_unnamed(n) ==
    Ok(LetStatement(Identifier("todo"), Identifier("todo")))

\* The statement both skip loops build once they have found the `;`.
parse_let_statement_tail(n) == Ok(LetStatement(n, Identifier("todo")))
parse_return_statement_tail == Ok(ReturnStatement(Identifier("todo")))

\* A match that drops the error of a failed statement.
parse_program_match_dropping(program, result) ==
    IF result.ok
    THEN [program EXCEPT !.statments = Append(@, result.value)]
    ELSE program

\* The match of parse_program on the result of parse_statement.
parse_program_match(program, result) ==
    IF result.ok
    THEN [program EXCEPT !.statments = Append(@, result.value)]
    ELSE [program EXCEPT !.errors = Append(@, result.err)]

-----------------------------------------------------------------------------
(* Inputs                                                                  *)

MaxLen == 4

Alphabet ==
    {Token_Ident("a"), Token_Int(5), Tok("Bang"), Tok("Minus"), Tok("Plus"),
     Tok("Asterisk"), Tok("Lparen"), Tok("Rparen"), Tok("Assign"),
     Tok("Semicolon"), Tok("Let"), Tok("Return")}

Streams == UNION {[1..n -> Alphabet] : n \in 0..MaxLen}

\* Tokens that stand for an operand, and the expression each one denotes.
Operands == {Token_Ident("a"), Token_Ident("b"), Token_Int(5), Tok("True")}

Operand(token) ==
    CASE token.kind = "Ident" -> Identifier(token.value)
      [] token.kind = "Int" -> IntegerLiteral(token.value)
      [] token.kind = "True" -> BooleanLiteral(TRUE)
      [] token.kind = "False" -> BooleanLiteral(FALSE)

BinaryOperators == {"Plus", "Minus", "Asterisk", "Slash", "Eq", "NotEq", "Lt", "Gt"}
PrefixOperators == {"Bang", "Minus"}

Semi == <<Tok("Semicolon")>>
Separators == {<<>>, Semi}

\* `a op1 b op2 c`, with and without a statement separator.
InfixChains ==
    {<<a, Tok(op1), b, Tok(op2), c>> \o sep :
        a \in Operands, b \in Operands, c \in Operands,
        op1 \in BinaryOperators, op2 \in BinaryOperators, sep \in Separators}

\* `5 op 5;` as in test_infix_expressions.
InfixPairs ==
    {<<a, Tok(op), b>> \o sep :
        a \in Operands, b \in Operands, op \in BinaryOperators, sep \in Separators}

\* `!x`, `-x` and `-x op y`.
PrefixInputs ==
    {<<Tok(pre), a>> \o sep : pre \in PrefixOperators, a \in Operands, sep \in Separators}
    \cup {<<Tok(pre), a, Tok(op), b>> \o sep :
            pre \in PrefixOperators, a \in Operands, b \in Operands,
            op \in BinaryOperators, sep \in Separators}

\* Expression trees of two levels over a few operands and operators, and
\* the token sequence that writes a tree down with every compound operand
\* in parentheses.
TreeAtoms == {Identifier("a"), IntegerLiteral(5)}
TreeOperators == {"Plus", "Minus", "Asterisk", "Eq"}

Grow(trees) ==
    trees
    \cup {PrefixExpression(op, t) : op \in PrefixOperators, t \in trees}
    \cup {InfixExpression(op, l, r) : op \in TreeOperators, l \in trees, r \in trees}

Trees1 == Grow(TreeAtoms)
Trees == Grow(Trees1)

RECURSIVE Render(_)
Render(t) ==
    LET Group(x) == IF x \in TreeAtoms
                    THEN Render(x)
                    ELSE <<Tok("Lparen")>> \o Render(x) \o <<Tok("Rparen")>>
    IN  CASE t.kind = "Identifier" -> <<Token_Ident(t.value)>>
          [] t.kind = "IntegerLiteral" -> <<Token_Int(t.value)>>
          [] t.kind = "PrefixExpression" -> <<Tok(t.operator)>> \o Group(t.right)
          [] t.kind = "InfixExpression" ->
                Group(t.left) \o <<Tok(t.operator)>> \o Group(t.right)

\* A tree with the tokens that write it.
Written == {[tree |-> t, tokens |-> Render(t)] : t \in Trees}

WrittenTokens == {w.tokens : w \in Written}

ExpressionInputs == {w.tokens \o sep : w \in Written, sep \in Separators}

\* `( e )` and `( e ) op c`.
GroupInputs ==
    {<<Tok("Lparen")>> \o w.tokens \o <<Tok("Rparen")>> \o rest :
        w \in Written,
        rest \in {<<>>} \cup {<<Tok(op), c>> : op \in TreeOperators, c \in Operands}}

\* Programs of well-formed `let <name> = <expr>;` and `return <expr>;`.
MaxStatements == 2

Names == {"x", "foobar"}
Values == {w \in Written : w.tree \in
             {IntegerLiteral(5),
              InfixExpression("Plus", IntegerLiteral(5), IntegerLiteral(5)),
              PrefixExpression("Minus", Identifier("a"))}}

WellFormed ==
    {[kind |-> "Let", name |-> n, value |-> v] : n \in Names, v \in Values}
    \cup {[kind |-> "Return", value |-> v] : v \in Values}

StatementTokens(s) ==
    IF s.kind = "Let"
    THEN <<Tok("Let"), Token_Ident(s.name), Tok("Assign")>> \o s.value.tokens \o Semi
    ELSE <<Tok("Return")>> \o s.value.tokens \o Semi

RECURSIVE ProgramTokens(_)
ProgramTokens(ss) ==
    IF ss = <<>> THEN <<>> ELSE StatementTokens(Head(ss)) \o ProgramTokens(Tail(ss))

WellFormedPrograms == UNION {[1..n -> WellFormed] : n \in 0..MaxStatements}

WrittenPrograms ==
    {[statements |-> ss, tokens |-> ProgramTokens(ss)] : ss \in WellFormedPrograms}

ProgramInputs == {w.tokens : w \in WrittenPrograms}

\* Single statements from the tests and the documentation.
Examples ==
    {<<Tok("Lparen"), Tok("Minus"), Tok("Lparen"), Token_Int(5), Tok("Plus"),
       Token_Int(5), Tok("Rparen"), Tok("Rparen")>>,
     <<Tok("Let"), Token_Ident("x"), Token_Int(5), Tok("Semicolon")>>,
     <<Tok("Let"), Token_Ident("x"), Tok("Assign"), Tok("Semicolon")>>,
     <<Tok("Let"), Token_Ident("x"), Tok("Assign"), Token_Int(1), Tok("Plus"),
       Token_Int(2), Tok("Semicolon")>>}

Inputs ==
    Streams \cup InfixChains \cup InfixPairs \cup PrefixInputs
    \cup ExpressionInputs \cup GroupInputs \cup ProgramInputs \cup Examples

-----------------------------------------------------------------------------
(* parse_program, one action per iteration of a loop of the code.          *)

Init ==
    /\ \E input \in Inputs : self = Parser_new(Lexer_new(input))
    /\ p = Program_new
    /\ pc = "loop"
    /\ name = Identifier("")
    /\ iterations = 0

\* An iteration of the while loop whose statement is an expression statement.
ParseExpressionStatement ==
    /\ pc = "loop"
    /\ self.current_token # None
    /\ self.current_token.kind \notin {"Let", "Return"}
    /\ LET r == parse_expression_statement(self)
       IN  /\ p' = parse_program_match(p, r.result)
           /\ self' = next_token(r.parser)
    /\ iterations' = iterations + 1
    /\ UNCHANGED <<pc, name>>

\* ParseLetStatement with a recovery that advances two tokens past a failure.
ParseLetStatement_skipping ==
    /\ pc = "loop"
    /\ self.current_token.kind = "Let"
    /\ LET r == parse_let_statement_head(self)
       IN  IF r.result.ok
           THEN /\ self' = r.parser
                /\ name' = r.result.value
                /\ pc' = "let_loop"
                /\ UNCHANGED <<p, iterations>>
           ELSE /\ p' = parse_program_match(p, r.result)
                /\ self' = next_token(next_token(r.parser))
                /\ iterations' = iterations + 1
                /\ UNCHANGED <<pc, name>>

\* An iteration whose statement starts with `let`: it fails at once, or
\* enters the loop that skips to the statement separator.
ParseLetStatement ==
    /\ pc = "loop"
    /\ self.current_token.kind = "Let"
    /\ LET r == parse_let_statement_head(self)
       IN  IF r.result.ok
           THEN /\ self' = r.parser
                /\ name' = r.result.value
                /\ pc' = "let_loop"
                /\ UNCHANGED <<p, iterations>>
           ELSE /\ p' = parse_program_match(p, r.result)
                /\ self' = next_token(r.parser)
                /\ iterations' = iterations + 1
                /\ UNCHANGED <<pc, name>>

\* One iteration of the skip loop of parse_let_statement.
LetLoop ==
    /\ pc = "let_loop"
    /\ LET s == next_token(self)
       IN  IF s.current_token.kind = "Semicolon"
           THEN /\ p' = parse_program_match(p, parse_let_statement_tail(name))
                /\ self' = next_token(s)
                /\ pc' = "loop"
                /\ iterations' = iterations + 1
                /\ UNCHANGED name
           ELSE /\ self' = s
                /\ UNCHANGED <<p, pc, name, iterations>>

\* An iteration whose statement starts with `return` enters its skip loop.
ParseReturnStatement ==
    /\ pc = "loop"
    /\ self.current_token.kind = "Return"
    /\ pc' = "return_loop"
    /\ UNCHANGED <<self, p, name, iterations>>

\* One iteration of the skip loop of parse_return_statement.
ReturnLoop ==
    /\ pc = "return_loop"
    /\ LET s == next_token(self)
       IN  IF s.current_token.kind = "Semicolon"
           THEN /\ p' = parse_program_match(p, parse_return_statement_tail)
                /\ self' = next_token(s)
                /\ pc' = "loop"
                /\ iterations' = iterations + 1
                /\ UNCHANGED name
           ELSE /\ self' = s
                /\ UNCHANGED <<p, pc, name, iterations>>

\* The while condition fails: parse_program returns Ok(p).
ParseProgramReturn ==
    /\ pc = "loop"
    /\ self.current_token = None
    /\ pc' = "done"
    /\ UNCHANGED <<self, p, name, iterations>>

Next ==
    \/ ParseExpressionStatement
    \/ ParseLetStatement
    \/ LetLoop
    \/ ParseReturnStatement
    \/ ReturnLoop
    \/ ParseProgramReturn

Spec == Init /\ [][Next]_vars

\* Short streams over the tokens that decide how a statement starts and ends.
MaxShort == 4

ShortAlphabet ==
    {Token_Ident("a"), Token_Int(5), Tok("Let"), Tok("Return"), Tok("Assign"),
     Tok("Semicolon")}

ShortStreams == UNION {[1..n -> ShortAlphabet] : n \in 0..MaxShort}

ShortInit ==
    /\ \E input \in ShortStreams : self = Parser_new(Lexer_new(input))
    /\ p = Program_new
    /\ pc = "loop"
    /\ name = Identifier("")
    /\ iterations = 0

\* parse_program is a synchronous call: it keeps running while it can take
\* a step that changes its state.
FairSpec == ShortInit /\ [][Next]_vars /\ WF_vars(Next)

-----------------------------------------------------------------------------
(* Properties                                                              *)

Input == self.lexer.input
Done == pc = "done"

\* C1: parse_program terminates on every finite token stream: whatever the
\* tokens, the parser eventually finds current_token empty and returns.
Termination == <>Done

IsAppend(old, new) == Len(new) = Len(old) + 1 /\ SubSeq(new, 1, Len(old)) = old

\* C2: every statement parse attempt of parse_program contributes exactly
\* one entry to the Program, a statement or an error message: after k
\* iterations the two lists hold k entries together, an iteration appends
\* to exactly one of the lists, nothing is ever removed or rewritten, and
\* parse_program returns the Program it has built.
OneEntryPerAttempt ==
    /\ [](Len(p.statments) + Len(p.errors) = iterations)
    /\ [][/\ iterations' \in {iterations, iterations + 1}
          /\ iterations' = iterations => p' = p
          /\ iterations' = iterations + 1 =>
                \/ IsAppend(p.statments, p'.statments) /\ p'.errors = p.errors
                \/ IsAppend(p.errors, p'.errors) /\ p'.statments = p.statments
          /\ pc' = "done" => p' = p]_vars

\* Both kinds of entry have been appended and parse_program has returned.
OneEntryPerAttemptWitness ==
    Done /\ iterations = 3 /\ Len(p.statments) = 2 /\ Len(p.errors) = 1

Binding(op) ==
    CASE op \in {"Eq", "NotEq"} -> 1
      [] op \in {"Lt", "Gt"} -> 2
      [] op \in {"Plus", "Minus"} -> 3
      [] op \in {"Asterisk", "Slash"} -> 4

IsInfixChain(in) ==
    /\ Len(in) \in {5, 6}
    /\ in[1] \in Operands /\ in[3] \in Operands /\ in[5] \in Operands
    /\ in[2].kind \in BinaryOperators /\ in[4].kind \in BinaryOperators
    /\ Len(in) = 6 => in[6] = Tok("Semicolon")

InfixChainTree(in) ==
    LET a == Operand(in[1])
        b == Operand(in[3])
        c == Operand(in[5])
        op1 == in[2].kind
        op2 == in[4].kind
    IN  IF Binding(op2) > Binding(op1)
        THEN InfixExpression(op1, a, InfixExpression(op2, b, c))
        ELSE InfixExpression(op2, InfixExpression(op1, a, b), c)

\* C3: `a op1 b op2 c` parses to Infix(op1, a, Infix(op2, b, c)) when op2
\* binds strictly tighter than op1, and to Infix(op2, Infix(op1, a, b), c)
\* otherwise, so that operators of equal precedence associate to the left.
PrecedenceAndAssociativity ==
    (Done /\ IsInfixChain(Input)) =>
        /\ p.errors = <<>>
        /\ p.statments = <<ExpressionStatement(InfixChainTree(Input))>>

\* `a + b * 5` has been parsed.
PrecedenceWitness ==
    /\ Done
    /\ Input = <<Token_Ident("a"), Tok("Plus"), Token_Ident("b"), Tok("Asterisk"),
                 Token_Int(5)>>
    /\ p.statments = <<ExpressionStatement(
          InfixExpression("Plus", Identifier("a"),
              InfixExpression("Asterisk", Identifier("b"), IntegerLiteral(5))))>>

GroupInner(in) ==
    IF in[Len(in)] = Tok("Rparen")
    THEN SubSeq(in, 2, Len(in) - 1)
    ELSE SubSeq(in, 2, Len(in) - 3)

IsGroup(in) ==
    /\ Len(in) >= 3
    /\ in[1] = Tok("Lparen")
    /\ \/ in[Len(in)] = Tok("Rparen")
       \/ /\ Len(in) >= 5
          /\ in[Len(in) - 2] = Tok("Rparen")
          /\ in[Len(in) - 1].kind \in BinaryOperators
          /\ in[Len(in)] \in Operands
    /\ GroupInner(in) \in WrittenTokens

GroupTree(in, inner) ==
    IF in[Len(in)] = Tok("Rparen")
    THEN inner
    ELSE InfixExpression(in[Len(in) - 1].kind, inner, Operand(in[Len(in)]))

\* C4: `( e )` with its closing parenthesis parses to the expression of e,
\* with no node for the parentheses, and a following infix operator takes
\* the whole group as its left operand: `(a + b) * c` is
\* Infix(*, Infix(+, a, b), c); one statement results and no error.
GroupingTransparency ==
    (Done /\ IsGroup(Input)) =>
        \A w \in Written :
            w.tokens = GroupInner(Input) =>
                /\ p.errors = <<>>
                /\ p.statments = <<ExpressionStatement(GroupTree(Input, w.tree))>>

\* `(a + 5) * b` has been parsed.
GroupingWitness ==
    /\ Done
    /\ Input = <<Tok("Lparen"), Token_Ident("a"), Tok("Plus"), Token_Int(5),
                 Tok("Rparen"), Tok("Asterisk"), Token_Ident("b")>>
    /\ p.statments = <<ExpressionStatement(
          InfixExpression("Asterisk",
              InfixExpression("Plus", Identifier("a"), IntegerLiteral(5)),
              Identifier("b")))>>

\* C5: a program of n well-formed `let <name> = <expr>;` and
\* `return <expr>;` statements yields no error and exactly n statements in
\* source order, the i-th a Let or a Return as the i-th source statement
\* is, each Let with the name the source gives it.
WellFormedStatements ==
    Done =>
        \A w \in WrittenPrograms :
            w.tokens = Input =>
                /\ p.errors = <<>>
                /\ Len(p.statments) = Len(w.statements)
                /\ \A i \in 1..Len(w.statements) :
                      /\ p.statments[i].kind = w.statements[i].kind
                      /\ w.statements[i].kind = "Let" =>
                            p.statments[i].name = Identifier(w.statements[i].name)

\* `let foobar = 5 + 5; return -a;` has been parsed.
WellFormedStatementsWitness ==
    /\ Done
    /\ Input = <<Tok("Let"), Token_Ident("foobar"), Tok("Assign"), Token_Int(5),
                 Tok("Plus"), Token_Int(5), Tok("Semicolon"),
                 Tok("Return"), Tok("Minus"), Token_Ident("a"), Tok("Semicolon")>>
    /\ Len(p.statments) = 2
    /\ p.statments[1].kind = "Let" /\ p.statments[1].name = Identifier("foobar")
    /\ p.statments[2].kind = "Return"

\* C6: the value of a Let (of a Return) statement is the expression that
\* the tokens after `=` (after `return`) parse to, and `let x = ;`, which
\* has no expression, is a failure and not a Let statement.
StatementValueIsParsed ==
    Done =>
        /\ \A w \in WrittenPrograms :
              w.tokens = Input =>
                  /\ Len(p.statments) = Len(w.statements)
                  /\ \A i \in 1..Len(w.statements) :
                        p.statments[i].value = w.statements[i].value.tree
        /\ Input = <<Tok("Let"), Token_Ident("x"), Tok("Assign"), Tok("Semicolon")>> =>
              p.statments = <<>> /\ p.errors # <<>>

IsPrefixInput(in) ==
    /\ Len(in) \in 2..5
    /\ in[1].kind \in PrefixOperators
    /\ in[2] \in Operands
    /\ Len(in) = 3 => in[3] = Tok("Semicolon")
    /\ Len(in) >= 4 => in[3].kind \in BinaryOperators /\ in[4] \in Operands
    /\ Len(in) = 5 => in[5] = Tok("Semicolon")

PrefixTree(in) ==
    LET operand == PrefixExpression(in[1].kind, Operand(in[2]))
    IN  IF Len(in) >= 4
        THEN InfixExpression(in[3].kind, operand, Operand(in[4]))
        ELSE operand

\* C7: `!` or `-` at the start of an expression takes the operand parsed
\* at Prefix precedence, which no binary operator exceeds: `!x` is
\* Prefix(Bang, x), `-x` is Prefix(Minus, x), and `-x op y` is
\* Infix(op, Prefix(Minus, x), y) for every binary operator op.
PrefixBinding ==
    (Done /\ IsPrefixInput(Input)) =>
        /\ p.errors = <<>>
        /\ p.statments = <<ExpressionStatement(PrefixTree(Input))>>

\* `-a * b` has been parsed.
PrefixBindingWitness ==
    /\ Done
    /\ Input = <<Tok("Minus"), Token_Ident("a"), Tok("Asterisk"), Token_Ident("b")>>
    /\ p.statments = <<ExpressionStatement(
          InfixExpression("Asterisk",
              PrefixExpression("Minus", Identifier("a")), Identifier("b")))>>

MalformedLet ==
    /\ pc = "loop"
    /\ self.current_token.kind = "Let"
    /\ ~(/\ self.peek_token.kind = "Ident"
         /\ Lexer_next_token(self.lexer).token.kind = "Assign")

Unread == SubSeq(Input, self.lexer.position + 1, Len(Input))

NoLaterStatementKeyword ==
    /\ self.peek_token.kind \notin {"Let", "Return"}
    /\ \A i \in 1..Len(Unread) : Unread[i].kind \notin {"Let", "Return"}

NamesOffendingToken(e) == "arg" \in DOMAIN e

NamesExpected(e) ==
    e.fmt \in {"expected token to be ident got: ",
               "right parentesis not found after left"}

\* C9: every recorded error identifies the offending token and the
\* expected alternative.
ErrorsNameTokenAndExpected ==
    \A i \in 1..Len(p.errors) :
        NamesOffendingToken(p.errors[i]) /\ NamesExpected(p.errors[i])

WithoutSeparator(in) ==
    IF in[Len(in)] = Tok("Semicolon") THEN SubSeq(in, 1, Len(in) - 1) ELSE in

IsInfixPair(in) ==
    /\ Len(in) \in {3, 4}
    /\ in[1] \in Operands /\ in[3] \in Operands
    /\ in[2].kind \in BinaryOperators
    /\ Len(in) = 4 => in[4] = Tok("Semicolon")

\* C10: the statement separator after an expression statement is optional
\* and belongs to the statement: `e` and `e;` both yield exactly the one
\* Expression statement of e and no error.
OptionalSeparator ==
    /\ (Done /\ Input \in ExpressionInputs) =>
          \A w \in Written :
              w.tokens = WithoutSeparator(Input) =>
                  /\ p.errors = <<>>
                  /\ p.statments = <<ExpressionStatement(w.tree)>>
    /\ (Done /\ IsInfixPair(Input)) =>
          /\ p.errors = <<>>
          /\ p.statments = <<ExpressionStatement(
                InfixExpression(Input[2].kind, Operand(Input[1]), Operand(Input[3])))>>

\* `a + 5;` has been parsed, separator included.
OptionalSeparatorWitness ==
    /\ Done
    /\ Input = <<Token_Ident("a"), Tok("Plus"), Token_Int(5), Tok("Semicolon")>>
    /\ p.statments = <<ExpressionStatement(
          InfixExpression("Plus", Identifier("a"), IntegerLiteral(5)))>>
    /\ p.errors = <<>>

\* The precedence the documentation gives each operator.
DocumentedPrecedence(op) ==
    CASE op \in {"Eq", "NotEq"} -> Equals
      [] op \in {"Lt", "Gt"} -> LessGreater
      [] op \in {"Plus", "Minus"} -> Sum
      [] op \in {"Asterisk", "Slash"} -> Product
      [] op = "Lparen" -> Call

\* The minimum precedences that callers of parse_expression supply.
CallerMinimums == {Lowest, Equals, LessGreater, Sum, Product, Prefix}

\* C11: the operator table maps Eq, NotEq to Equals; Lt, Gt to LessGreater;
\* Plus, Minus to Sum; Asterisk, Slash to Product; and the call marker
\* Lparen to Call, with Lowest < Equals < LessGreater < Sum < Product <
\* Prefix < Call; so a `(` in peek position after an expression has a
\* precedence above every minimum a caller supplies, and parse_expression
\* continues over it instead of ending the expression at the operand.
CallPrecedence ==
    /\ Lowest < Equals /\ Equals < LessGreater /\ LessGreater < Sum
    /\ Sum < Product /\ Product < Prefix /\ Prefix < Call
    /\ \A op \in BinaryOperators :
          OperatorPrecedence_from(op) = DocumentedPrecedence(op)
    /\ (/\ Len(Input) >= 2
        /\ Input[1] \in Operands
        /\ Input[2] = Tok("Lparen")
        /\ Len(p.statments) >= 1) =>
          LET op == Operator_try_from(Input[2])
          IN  /\ op.ok
              /\ OperatorPrecedence_from(op.value) = DocumentedPrecedence(op.value)
              /\ \A minimum \in CallerMinimums :
                    OperatorPrecedence_from(op.value) > minimum
              /\ p.statments[1] # ExpressionStatement(Operand(Input[1]))

\* The tokens the parser has not consumed: those in the window and those
\* the token source still holds.
Remaining(parser) ==
    (IF parser.current_token # None THEN 1 ELSE 0)
    + (IF parser.peek_token # None THEN 1 ELSE 0)
    + (Len(parser.lexer.input) - parser.lexer.position)

\* The statement rule parse_statement selects, run to its failure or to
\* the start of its skip loop.
StatementRule(parser) ==
    IF parser.current_token.kind = "Let"
    THEN parse_let_statement_head(parser)
    ELSE parse_expression_statement(parser)

FailedIteration == pc = "loop" /\ IsAppend(p.errors, p'.errors)

\* C12: after a failed statement parse_program moves the window forward by
\* exactly one token from where the failing rule left it and starts the
\* next statement there, skipping nothing more, so the rest of the failed
\* statement is parsed as new statements (`let 5;` gives one error and
\* then the Expression statement 5); and every iteration of the loop,
\* failed or not, consumes at least one token.
SingleTokenRecovery ==
    /\ [][/\ FailedIteration =>
               /\ ~StatementRule(self).result.ok
               /\ self' = next_token(StatementRule(self).parser)
               /\ pc' = "loop"
          /\ (FailedIteration /\ self.current_token.kind = "Let"
                /\ self.peek_token.kind # "Ident") =>
               /\ self' = next_token(self)
               /\ Remaining(self') = Remaining(self) - 1
          /\ Remaining(self') <= Remaining(self)
          /\ iterations' = iterations + 1 => Remaining(self') < Remaining(self)]_vars
    /\ [](Done =>
            /\ Input \in {<<Tok("Let"), Token_Int(5)>> \o sep : sep \in Separators} =>
                  /\ Len(p.errors) = 1
                  /\ p.statments = <<ExpressionStatement(IntegerLiteral(5))>>
            /\ Input \in {<<Tok("Let"), Token_Ident("a"), Token_Int(5)>> \o sep :
                             sep \in Separators} =>
                  /\ Len(p.errors) = 1
                  /\ p.statments = <<ExpressionStatement(IntegerLiteral(5))>>)

\* `let 5;` has been parsed: one error, then the statement 5.
SingleTokenRecoveryWitness ==
    /\ Done
    /\ Input = <<Tok("Let"), Token_Int(5), Tok("Semicolon")>>
    /\ Len(p.errors) = 1
    /\ p.statments = <<ExpressionStatement(IntegerLiteral(5))>>
    /\ iterations = 2

====
